---------------------------- MODULE Spec2Model ----------------------------
(***************************************************************************)
(* A model of the insurance-product recommendation service                 *)
(* (src/recommend.py): the text normaliser, the synonym registry and its   *)
(* reverse index, the CSV cache with its lazy load and reload, and the     *)
(* /healthz, /reload and /recommend handlers.                              *)
(*                                                                         *)
(* Text is a sequence of characters.  An ASCII character is the one-letter *)
(* string itself; a non-ASCII character is named by its code point, as in  *)
(* "U+1EA1" for LATIN SMALL LETTER A WITH DOT BELOW.                       *)
(***************************************************************************)
EXTENDS Integers, Sequences, FiniteSets, TLC

VARIABLES
    df_cache,    \* the global df_cache: None or a loaded DataFrame
    strAccessor, \* which pandas string backend the installation has
    last,        \* the last request a handler completed, with its response
    frames,      \* per worker thread: the handler invocation it is running
    probe        \* a text, and what normalize and the resolver make of it

vars == <<df_cache, strAccessor, last, frames, probe>>

(***************************************************************************)
(* The synonym registry, in declaration order.                             *)
(***************************************************************************)
CATEGORY_SYNONYMS ==
  <<
    [canon |-> <<"a", "c", "c", "i", "d", "e", "n", "t">>,
     syns |-> <<
        <<"t", "a", "i", " ", "n", "a", "n">>,
        <<"t", "a", "i", "-", "n", "a", "n">>,
        <<"t", "a", "i", " ", "n", "U+1EA1", "n">>,
        <<"t", "a", "i", " ", "n", "U+1EA1", "n", " ", "c", "U+00E1", " ", "n", "h", "U+00E2", "n">>,
        <<"t", "a", "i", " ", "n", "U+1EA1", "n", " ", "l", "a", "o", " ", "U+0111", "U+1ED9", "n", "g">>,
        <<"p", "e", "r", "s", "o", "n", "a", "l", " ", "a", "c", "c", "i", "d", "e", "n", "t">>,
        <<"a", "c", "c", "i", "d", "e", "n", "t">>,
        <<"p", "a">>,
        <<"t", "a", "i", " ", "n", "U+1EA1", "n", " ", "2", "4", "/", "7">> >>],
    [canon |-> <<"h", "e", "a", "l", "t", "h">>,
     syns |-> <<
        <<"s", "u", "c", " ", "k", "h", "o", "e">>,
        <<"s", "U+1EE9", "c", " ", "k", "h", "U+1ECF", "e">>,
        <<"s", "u", "c", "-", "k", "h", "o", "e">>,
        <<"h", "e", "a", "l", "t", "h">>,
        <<"m", "e", "d", "i", "c", "a", "l">>,
        <<"h", "e", "a", "l", "t", "h", "c", "a", "r", "e">>,
        <<"c", "h", "U+0103", "m", " ", "s", "U+00F3", "c", " ", "s", "U+1EE9", "c", " ", "k", "h", "U+1ECF", "e">>,
        <<"v", "i", "U+1EC7", "n", " ", "p", "h", "U+00ED">>,
        <<"b", "e", "n", "h", " ", "v", "i", "e", "n">>,
        <<"h", "o", "s", "p", "i", "t", "a", "l", "i", "z", "a", "t", "i", "o", "n">> >>],
    [canon |-> <<"l", "i", "f", "e">>,
     syns |-> <<
        <<"n", "h", "U+00E2", "n", " ", "t", "h", "U+1ECD">>,
        <<"n", "h", "a", "n", " ", "t", "h", "o">>,
        <<"n", "h", "a", "n", "-", "t", "h", "o">>,
        <<"l", "i", "f", "e">>,
        <<"l", "i", "f", "e", " ", "i", "n", "s", "u", "r", "a", "n", "c", "e">>,
        <<"t", "e", "r", "m", " ", "l", "i", "f", "e">>,
        <<"w", "h", "o", "l", "e", " ", "l", "i", "f", "e">>,
        <<"b", "U+1EA3", "o", " ", "v", "U+1EC7", " ", "t", "U+00E0", "i", " ", "c", "h", "U+00ED", "n", "h">>,
        <<"b", "U+1EA3", "o", " ", "v", "U+1EC7", " ", "g", "i", "a", " ", "U+0111", "U+00EC", "n", "h">> >>],
    [canon |-> <<"c", "r", "i", "t", "i", "c", "a", "l", " ", "i", "l", "l", "n", "e", "s", "s">>,
     syns |-> <<
        <<"b", "U+1EC7", "n", "h", " ", "h", "i", "U+1EC3", "m", " ", "n", "g", "h", "U+00E8", "o">>,
        <<"c", "r", "i", "t", "i", "c", "a", "l", " ", "i", "l", "l", "n", "e", "s", "s">>,
        <<"c", "i">>,
        <<"u", "n", "g", " ", "t", "h", "U+01B0">>,
        <<"c", "a", "n", "c", "e", "r">>,
        <<"t", "i", "m", " ", "m", "U+1EA1", "c", "h">>,
        <<"U+0111", "U+1ED9", "t", " ", "q", "u", "U+1EF5">>,
        <<"t", "a", "i", " ", "b", "i", "U+1EBF", "n">>,
        <<"m", "a", "n", " ", "t", "i", "n", "h">>,
        <<"m", "U+00E3", "n", " ", "t", "U+00ED", "n", "h">>,
        <<"b", "U+1EC7", "n", "h", " ", "n", "U+1EB7", "n", "g">>,
        <<"b", "U+1EC7", "n", "h", " ", "n", "g", "h", "i", "U+00EA", "m", " ", "t", "r", "U+1ECD", "n", "g">> >>],
    [canon |-> <<"h", "o", "s", "p", "i", "t", "a", "l">>,
     syns |-> <<
        <<"b", "U+1EC7", "n", "h", " ", "v", "i", "U+1EC7", "n">>,
        <<"b", "e", "n", "h", " ", "v", "i", "e", "n">>,
        <<"h", "o", "s", "p", "i", "t", "a", "l">>,
        <<"h", "o", "s", "p", "i", "t", "a", "l", "i", "z", "a", "t", "i", "o", "n">>,
        <<"n", "U+1EB1", "m", " ", "v", "i", "U+1EC7", "n">>,
        <<"v", "i", "U+1EC7", "n", " ", "p", "h", "U+00ED">>,
        <<"m", "e", "d", "i", "c", "a", "l", " ", "c", "o", "s", "t">>,
        <<"i", "n", "p", "a", "t", "i", "e", "n", "t">>,
        <<"o", "u", "t", "p", "a", "t", "i", "e", "n", "t">>,
        <<"n", "g", "o", "U+1EA1", "i", " ", "t", "r", "U+00FA">>,
        <<"n", "U+1ED9", "i", " ", "t", "r", "U+00FA">>,
        <<"p", "h", "U+1EAB", "u", " ", "t", "h", "u", "U+1EAD", "t">>,
        <<"s", "u", "r", "g", "e", "r", "y">> >>],
    [canon |-> <<"c", "h", "i", "l", "d", "r", "e", "n">>,
     syns |-> <<
        <<"t", "r", "U+1EBB", " ", "e", "m">>,
        <<"t", "r", "U+1EBB", " ", "c", "o", "n">>,
        <<"t", "r", "U+1EBB", " ", "n", "h", "U+1ECF">>,
        <<"c", "h", "i", "l", "d">>,
        <<"c", "h", "i", "l", "d", "r", "e", "n">>,
        <<"k", "i", "d">>,
        <<"k", "i", "d", "s">>,
        <<"b", "U+1EA3", "o", " ", "h", "i", "U+1EC3", "m", " ", "t", "r", "U+1EBB", " ", "e", "m">>,
        <<"s", "t", "u", "d", "e", "n", "t", " ", "i", "n", "s", "u", "r", "a", "n", "c", "e">>,
        <<"b", "a", "b", "y">>,
        <<"m", "U+1EA7", "m", " ", "n", "o", "n">>,
        <<"h", "U+1ECD", "c", " ", "s", "i", "n", "h">> >>],
    [canon |-> <<"t", "r", "a", "v", "e", "l">>,
     syns |-> <<
        <<"d", "u", " ", "l", "U+1ECB", "c", "h">>,
        <<"d", "u", "-", "l", "i", "c", "h">>,
        <<"t", "r", "a", "v", "e", "l">>,
        <<"t", "r", "a", "v", "e", "l", " ", "i", "n", "s", "u", "r", "a", "n", "c", "e">>,
        <<"t", "r", "i", "p">>,
        <<"h", "o", "l", "i", "d", "a", "y">>,
        <<"t", "o", "u", "r">>,
        <<"o", "v", "e", "r", "s", "e", "a", "s">>,
        <<"b", "U+1EA3", "o", " ", "h", "i", "U+1EC3", "m", " ", "d", "u", " ", "l", "U+1ECB", "c", "h">>,
        <<"b", "U+1EA3", "o", " ", "h", "i", "U+1EC3", "m", " ", "q", "u", "U+1ED1", "c", " ", "t", "U+1EBF">> >>],
    [canon |-> <<"d", "e", "n", "t", "a", "l">>,
     syns |-> <<
        <<"n", "h", "a", " ", "k", "h", "o", "a">>,
        <<"d", "e", "n", "t", "a", "l">>,
        <<"r", "U+0103", "n", "g">>,
        <<"r", "U+0103", "n", "g", " ", "m", "i", "U+1EC7", "n", "g">>,
        <<"c", "h", "U+0103", "m", " ", "s", "U+00F3", "c", " ", "r", "U+0103", "n", "g">>,
        <<"c", "h", "U+1EC9", "n", "h", " ", "n", "h", "a">>,
        <<"n", "i", "U+1EC1", "n", "g", " ", "r", "U+0103", "n", "g">>,
        <<"n", "h", "a", " ", "s", "U+0129">>,
        <<"t", "r", "U+00E1", "m", " ", "r", "U+0103", "n", "g">>,
        <<"l", "U+00E0", "m", " ", "r", "U+0103", "n", "g">>,
        <<"n", "h", "a", " ", "k", "h", "o", "a", " ", "t", "h", "U+1EA9", "m", " ", "m", "U+1EF9">> >>],
    [canon |-> <<"v", "i", "s", "i", "o", "n">>,
     syns |-> <<
        <<"t", "h", "U+1ECB", " ", "l", "U+1EF1", "c">>,
        <<"m", "U+1EAF", "t">>,
        <<"k", "U+00ED", "n", "h">>,
        <<"m", "U+1EAF", "t", " ", "k", "U+00ED", "n", "h">>,
        <<"v", "i", "s", "i", "o", "n">>,
        <<"e", "y", "e">>,
        <<"e", "y", "e", " ", "c", "a", "r", "e">>,
        <<"o", "p", "t", "i", "c", "a", "l">>,
        <<"o", "p", "t", "o", "m", "e", "t", "r", "y">>,
        <<"k", "h", "U+00E1", "m", " ", "m", "U+1EAF", "t">>,
        <<"b", "U+1EA3", "o", " ", "h", "i", "U+1EC3", "m", " ", "m", "U+1EAF", "t">> >>]
  >>

(***************************************************************************)
(* unidecode: the transliteration of each non-ASCII character the model    *)
(* uses; every ASCII character is left as it is.                           *)
(***************************************************************************)
UnidecodeTable ==
  "U+00E0" :> <<"a">> @@ "U+00E1" :> <<"a">> @@ "U+00E2" :> <<"a">> @@ "U+00E3" :> <<"a">> @@
  "U+00E8" :> <<"e">> @@ "U+00EA" :> <<"e">> @@ "U+00EC" :> <<"i">> @@ "U+00ED" :> <<"i">> @@
  "U+00F3" :> <<"o">> @@ "U+00FA" :> <<"u">> @@ "U+0103" :> <<"a">> @@ "U+0111" :> <<"d">> @@
  "U+0129" :> <<"i">> @@ "U+01B0" :> <<"u">> @@ "U+1EA1" :> <<"a">> @@ "U+1EA3" :> <<"a">> @@
  "U+1EA7" :> <<"a">> @@ "U+1EA9" :> <<"a">> @@ "U+1EAB" :> <<"a">> @@ "U+1EAD" :> <<"a">> @@
  "U+1EAF" :> <<"a">> @@ "U+1EB1" :> <<"a">> @@ "U+1EB7" :> <<"a">> @@ "U+1EBB" :> <<"e">> @@
  "U+1EBF" :> <<"e">> @@ "U+1EC1" :> <<"e">> @@ "U+1EC3" :> <<"e">> @@ "U+1EC7" :> <<"e">> @@
  "U+1EC9" :> <<"i">> @@ "U+1ECB" :> <<"i">> @@ "U+1ECD" :> <<"o">> @@ "U+1ECF" :> <<"o">> @@
  "U+1ED1" :> <<"o">> @@ "U+1ED9" :> <<"o">> @@ "U+1EE9" :> <<"u">> @@ "U+1EF1" :> <<"u">> @@
  "U+1EF5" :> <<"y">> @@ "U+1EF9" :> <<"y">> @@
  "U+1EA0" :> <<"A">> @@ "U+00A0" :> <<" ">> @@ "U+00C6" :> <<"A", "E">> @@ "U+2026" :> <<".", ".", ".">> @@
  "U+5317" :> <<"B", "e", "i", " ">>

NonAscii == DOMAIN UnidecodeTable

Translit(c) == IF c \in NonAscii THEN UnidecodeTable[c] ELSE <<c>>

RECURSIVE UnidecodeFrom(_, _)
UnidecodeFrom(s, i) ==
    IF i > Len(s) THEN <<>> ELSE Translit(s[i]) \o UnidecodeFrom(s, i + 1)

unidecode(s) == UnidecodeFrom(s, 1)

LowerTable ==
  "A" :> "a" @@ "B" :> "b" @@ "C" :> "c" @@ "D" :> "d" @@ "E" :> "e" @@ "F" :> "f" @@ "G" :> "g" @@
  "H" :> "h" @@ "I" :> "i" @@ "J" :> "j" @@ "K" :> "k" @@ "L" :> "l" @@ "M" :> "m" @@ "N" :> "n" @@
  "O" :> "o" @@ "P" :> "p" @@ "Q" :> "q" @@ "R" :> "r" @@ "S" :> "s" @@ "T" :> "t" @@ "U" :> "u" @@
  "V" :> "v" @@ "W" :> "w" @@ "X" :> "x" @@ "Y" :> "y" @@ "Z" :> "z"

UpperCase == DOMAIN LowerTable

LowerChar(c) == IF c \in UpperCase THEN LowerTable[c] ELSE c

lower(s) == [i \in 1..Len(s) |-> LowerChar(s[i])]

Whitespace == {" ", "\t", "U+00A0"}

RECURSIVE lstrip(_)
lstrip(s) == IF s # <<>> /\ s[1] \in Whitespace THEN lstrip(Tail(s)) ELSE s

RECURSIVE rstrip(_)
rstrip(s) ==
    IF s # <<>> /\ s[Len(s)] \in Whitespace THEN rstrip(SubSeq(s, 1, Len(s) - 1)) ELSE s

strip(s) == rstrip(lstrip(s))

(***************************************************************************)
(* Python values, as far as the handlers look at them: a JSON value of the *)
(* request body or a cell of the CSV.  t is the type, s the text of a str  *)
(* (or the name of a non-finite float), n the number of an int or bool and *)
(* the number of tenths of a finite float.                                 *)
(***************************************************************************)
PyNone == [t |-> "none", s |-> <<>>, n |-> 0]
PyStr(s) == [t |-> "str", s |-> s, n |-> 0]
PyInt(n) == [t |-> "int", s |-> <<>>, n |-> n]
PyBool(b) == [t |-> "bool", s |-> <<>>, n |-> IF b THEN 1 ELSE 0]
PyFloat(tenths) == [t |-> "float", s |-> <<>>, n |-> tenths]
PyNaN == [t |-> "float", s |-> <<"n", "a", "n">>, n |-> 0]
PyInf == [t |-> "float", s |-> <<"i", "n", "f">>, n |-> 0]
PyList == [t |-> "list", s |-> <<>>, n |-> 0]
PyDict == [t |-> "dict", s |-> <<>>, n |-> 0]

Digits == <<"0", "1", "2", "3", "4", "5", "6", "7", "8", "9">>

IsDigit(c) == \E d \in 1..10 : Digits[d] = c

DigitVal(c) == (CHOOSE d \in 1..10 : Digits[d] = c) - 1

RECURSIVE NatToStr(_)
NatToStr(n) ==
    IF n < 10 THEN <<Digits[n + 1]>>
    ELSE NatToStr(n \div 10) \o <<Digits[(n % 10) + 1]>>

IntToStr(n) == IF n < 0 THEN <<"-">> \o NatToStr(-n) ELSE NatToStr(n)

\* str(v) for the values normalize is applied to.
str(v) ==
    CASE v.t = "str" -> v.s
      [] v.t = "int" -> IntToStr(v.n)
      [] v.t = "bool" -> IF v.n = 1 THEN <<"T", "r", "u", "e">>
                         ELSE <<"F", "a", "l", "s", "e">>
      [] v.t = "float" /\ v.s # <<>> -> v.s
      [] v.t = "float" /\ v.s = <<>> ->
            (IF v.n < 0 THEN <<"-">> ELSE <<>>)
            \o NatToStr((IF v.n < 0 THEN -v.n ELSE v.n) \div 10)
            \o <<".">>
            \o NatToStr((IF v.n < 0 THEN -v.n ELSE v.n) % 10)
      [] v.t = "list" -> <<"[", "]">>
      [] v.t = "dict" -> <<"{", "}">>
      [] v.t = "none" -> <<"N", "o", "n", "e">>

\* normalize with the strip before the transliteration.
normalize_StripFirst(v) ==
    IF v.t # "none" THEN lower(unidecode(strip(str(v)))) ELSE <<>>

normalize(v) == IF v.t # "none" THEN strip(lower(unidecode(str(v)))) ELSE <<>>

(***************************************************************************)
(* CANONICAL: the reverse index.  The loop visits the categories and their *)
(* synonyms in declaration order and assigns CANONICAL[key] = canon, so a  *)
(* key written twice keeps the canon written last.                         *)
(***************************************************************************)
CanonicalKey(s) == lower(unidecode(s))

\* The assignments of the loop, in the order it makes them.
RECURSIVE CanonicalWrites(_)
CanonicalWrites(k) ==
    IF k > Len(CATEGORY_SYNONYMS) THEN <<>>
    ELSE [i \in 1..Len(CATEGORY_SYNONYMS[k].syns) |->
             [key |-> CanonicalKey(CATEGORY_SYNONYMS[k].syns[i]),
              canon |-> CATEGORY_SYNONYMS[k].canon]]
         \o CanonicalWrites(k + 1)

\* DictAfter with the first assignment of a key kept (setdefault).
DictAfter_FirstWins(writes, n) ==
    [key \in {writes[i].key : i \in 1..n} |->
        writes[CHOOSE i \in 1..n :
                  /\ writes[i].key = key
                  /\ \A j \in 1..(i - 1) : writes[j].key # key].canon]

\* The dict after the first n assignments: assignment n overrides what the
\* earlier ones left under its key.
RECURSIVE DictAfter(_, _)
DictAfter(writes, n) ==
    IF n = 0 THEN <<>>
    ELSE (writes[n].key :> writes[n].canon) @@ DictAfter(writes, n - 1)

CANONICAL == DictAfter(CanonicalWrites(1), Len(CanonicalWrites(1)))

\* CANONICAL.get(key, default)
CanonicalGet(key, default) ==
    IF key \in DOMAIN CANONICAL THEN CANONICAL[key] ELSE default

\* CATEGORY_SYNONYMS.get(canon, [canon])
SynonymsGet(canon) ==
    IF \E k \in 1..Len(CATEGORY_SYNONYMS) : CATEGORY_SYNONYMS[k].canon = canon
    THEN CATEGORY_SYNONYMS[CHOOSE k \in 1..Len(CATEGORY_SYNONYMS) :
                               CATEGORY_SYNONYMS[k].canon = canon].syns
    ELSE <<canon>>

(***************************************************************************)
(* The limit field.  int(str) accepts surrounding whitespace, one sign and *)
(* decimal digits with single underscores between them; int(float)         *)
(* truncates towards zero and raises on nan and on the infinities.         *)
(***************************************************************************)
NoException == "none"

RECURSIVE DigitsValue(_)
DigitsValue(ds) ==
    IF ds = <<>> THEN 0
    ELSE 10 * DigitsValue(SubSeq(ds, 1, Len(ds) - 1)) + DigitVal(ds[Len(ds)])

\* int(s) for a str s: [ok |-> FALSE] stands for ValueError.
IntOfStr(s) ==
    LET t == strip(s)
        signed == t # <<>> /\ t[1] \in {"+", "-"}
        body == IF signed THEN Tail(t) ELSE t
        wellFormed ==
            /\ body # <<>>
            /\ \A i \in 1..Len(body) : IsDigit(body[i]) \/ body[i] = "_"
            /\ IsDigit(body[1]) /\ IsDigit(body[Len(body)])
            /\ \A i \in 1..(Len(body) - 1) : ~(body[i] = "_" /\ body[i + 1] = "_")
        magnitude == DigitsValue(SelectSeq(body, IsDigit))
    IN  IF wellFormed
        THEN [ok |-> TRUE, v |-> IF signed /\ t[1] = "-" THEN -magnitude ELSE magnitude]
        ELSE [ok |-> FALSE, v |-> 0]

\* int(x) for an int, bool or float x.
IntOfNumber(x) ==
    CASE x.t \in {"int", "bool"} -> [exc |-> NoException, v |-> x.n]
      [] x.t = "float" /\ x.s = <<"n", "a", "n">> -> [exc |-> "ValueError", v |-> 0]
      [] x.t = "float" /\ x.s = <<"i", "n", "f">> -> [exc |-> "OverflowError", v |-> 0]
      [] x.t = "float" /\ x.s = <<>> ->
            [exc |-> NoException,
             v |-> IF x.n < 0 THEN -((-x.n) \div 10) ELSE x.n \div 10]

LiteralAll == <<"a", "l", "l">>

\* ParseLimit with the tests v < 0 in place of v <= 0.
ParseLimit_ZeroKept(limit_raw) ==
    CASE limit_raw.t = "str" ->
            IF lower(strip(limit_raw.s)) # LiteralAll
            THEN LET r == IntOfStr(limit_raw.s)
                 IN  [exc |-> NoException,
                      limit |-> IF r.ok /\ r.v >= 0 THEN PyInt(r.v) ELSE PyNone]
            ELSE [exc |-> NoException, limit |-> PyNone]
      [] limit_raw.t \in {"int", "bool", "float"} ->
            LET r == IntOfNumber(limit_raw)
            IN  IF r.exc # NoException THEN [exc |-> r.exc, limit |-> PyNone]
                ELSE [exc |-> NoException,
                      limit |-> IF r.v < 0 THEN PyNone ELSE PyInt(r.v)]
      [] OTHER -> [exc |-> NoException, limit |-> PyNone]

\* Lines 119-131: the limit the request asks for, PyNone for unlimited, or
\* the exception the conversion raises out of the handler's try block.
ParseLimit(limit_raw) ==
    CASE limit_raw.t = "str" ->
            IF lower(strip(limit_raw.s)) # LiteralAll
            THEN LET r == IntOfStr(limit_raw.s)
                 IN  [exc |-> NoException,
                      limit |-> IF r.ok /\ r.v > 0 THEN PyInt(r.v) ELSE PyNone]
            ELSE [exc |-> NoException, limit |-> PyNone]
      [] limit_raw.t \in {"int", "bool", "float"} ->
            LET r == IntOfNumber(limit_raw)
            IN  IF r.exc # NoException THEN [exc |-> r.exc, limit |-> PyNone]
                ELSE [exc |-> NoException,
                      limit |-> IF r.v <= 0 THEN PyNone ELSE PyInt(r.v)]
      [] OTHER -> [exc |-> NoException, limit |-> PyNone]

(***************************************************************************)
(* DataFrames.  A frame is its column names, in order, and its rows, in    *)
(* order (the RangeIndex read_csv gives is the position of the row).  A    *)
(* row carries one value per column name the model knows; the frame's      *)
(* columns say which of them the frame has.                                *)
(***************************************************************************)
None == [none |-> TRUE, columns |-> <<>>, rows |-> <<>>]

DataFrame(columns, rows) == [none |-> FALSE, columns |-> columns, rows |-> rows]

HasColumn(df, c) == \E i \in 1..Len(df.columns) : df.columns[i] = c

\* Lines 74-83: load_csv on what DATA_PATH holds: the exception it raises,
\* or the frame it returns, with _category_n computed for every row.
load_csv(file) ==
    CASE file.kind = "missing" ->
            [exc |-> "FileNotFoundError", detail |-> "Khong tim thay CSV", df |-> None]
      [] file.kind = "undecodable" ->
            [exc |-> "RuntimeError", detail |-> "Khong doc duoc CSV", df |-> None]
      [] file.kind = "csv" /\ ~HasColumn(file, "Category") ->
            [exc |-> "ValueError", detail |-> "CSV phai co cot 'Category'", df |-> None]
      [] OTHER ->
            [exc |-> NoException, detail |-> "",
             df |-> DataFrame(
                 Append(file.columns, "_category_n"),
                 [i \in 1..Len(file.rows) |->
                     [Name |-> file.rows[i].Name,
                      Category |-> file.rows[i].Category,
                      Price |-> file.rows[i].Price,
                      _category_n |-> normalize(file.rows[i].Category)]])]

(***************************************************************************)
(* Responses.                                                              *)
(***************************************************************************)
Response(status, code, rows, items, detail) ==
    [status |-> status, code |-> code, rows |-> rows,
     count |-> Len(items), items |-> items, detail |-> detail]

ErrorResponse(code, detail) == Response("error", code, 0, <<>>, detail)

NotLoadedDetail == "CSV chua duoc nap."

(***************************************************************************)
(* The body of recommend after the load.                                   *)
(***************************************************************************)
\* Line 117: body.get("categories") or []
CategoriesOrEmpty(categories) ==
    IF categories.t = "list" THEN categories.items ELSE <<>>

\* Line 135: CANONICAL.get(normalize(c), normalize(c))
Resolve(c) == LET key == normalize(c) IN CanonicalGet(key, key)

\* Lines 133-135
Wanted(categories) == {Resolve(categories[i]) : i \in 1..Len(categories)}

\* Lines 140-143: the normalized synonyms that go into the pattern.
SynsNorm(wanted) ==
    UNION {LET syns == SynonymsGet(canon)
           IN  {normalize(PyStr(syns[i])) : i \in {j \in 1..Len(syns) : syns[j] # <<>>}} :
           canon \in wanted}

\* Line 145: the compiled alternation of the escaped synonyms.
ReCompile(syns_norm) == [t |-> "Pattern", alts |-> syns_norm]

Contains(sub, s) ==
    \E i \in 0..(Len(s) - Len(sub)) : SubSeq(s, i + 1, i + Len(sub)) = sub

\* re.search of a compiled alternation of literals.
ReSearch(pat, s) == \E alt \in pat.alts : Contains(alt, s)

\* Series.str.contains(pat, na, regex) of pandas on the texts xs.  With
\* regex it searches the pattern.  Without, it evaluates `pat in x`, which
\* is a TypeError for a pat that is no str: the object-dtype accessor then
\* gives na for that element, the string-dtype accessors raise.
str_contains(xs, pat, na, regex, accessor) ==
    IF regex
    THEN [exc |-> NoException, mask |-> [i \in 1..Len(xs) |-> ReSearch(pat, xs[i])]]
    ELSE IF pat.t = "str"
    THEN [exc |-> NoException, mask |-> [i \in 1..Len(xs) |-> Contains(pat.s, xs[i])]]
    ELSE IF accessor = "object"
    THEN [exc |-> NoException, mask |-> [i \in 1..Len(xs) |-> na]]
    ELSE [exc |-> "TypeError", mask |-> <<>>]

\* mask & other, aligned on the union of the two indexes.
SeriesAnd(a, b) ==
    [i \in 1..(IF Len(a) >= Len(b) THEN Len(a) ELSE Len(b)) |->
        i <= Len(a) /\ i <= Len(b) /\ a[i] /\ b[i]]

\* Line 146, regex=False as the source passes it.
ContainsCategory(df, cat_re, accessor) ==
    str_contains([i \in 1..Len(df.rows) |-> df.rows[i]._category_n],
                 cat_re, FALSE, FALSE, accessor)

RowsWhere(rows, mask) ==
    LET keep == {i \in 1..Len(rows) : mask[i]}
        Rank(i) == Cardinality({j \in keep : j <= i})
    IN  [k \in 1..Cardinality(keep) |-> rows[CHOOSE i \in keep : Rank(i) = k]]

\* Line 149
head(rows, limit) ==
    IF limit.t = "none" THEN rows
    ELSE SubSeq(rows, 1, IF limit.n < Len(rows) THEN limit.n ELSE Len(rows))

\* Lines 137-146: the row mask, from the frame df_cache names at line 137
\* (d137) and the one it names at line 146 (d146).
RowMask(d137, d146, wanted, accessor) ==
    LET mask == [i \in 1..Len(d137.rows) |-> TRUE]
        syns_norm == SynsNorm(wanted)
    IN  IF wanted # {} /\ syns_norm # {}
        THEN LET contains == ContainsCategory(d146, ReCompile(syns_norm), accessor)
             IN  IF contains.exc # NoException
                 THEN [exc |-> contains.exc, mask |-> <<>>]
                 ELSE [exc |-> NoException, mask |-> SeriesAnd(mask, contains.mask)]
        ELSE [exc |-> NoException, mask |-> mask]

\* Whether line 146 is reached at all.
ReadsAt146(categories) ==
    Wanted(CategoriesOrEmpty(categories)) # {}
    /\ SynsNorm(Wanted(CategoriesOrEmpty(categories))) # {}

\* Line 148: df_cache[mask] on the frame df_cache names there (d148).  A
\* boolean Series that does not cover the frame's index is unalignable.
Filtered(d148, mask) ==
    IF Len(mask) < Len(d148.rows)
    THEN [exc |-> "IndexingError", rows |-> <<>>]
    ELSE [exc |-> NoException, rows |-> RowsWhere(d148.rows, mask)]

\* OutputColumns without the filter on _category_n.
OutputColumns_KeepAll(d151) == d151.columns

\* Line 151, on the frame df_cache names there (d151).
OutputColumns(d151) == SelectSeq(d151.columns, LAMBDA c : c # "_category_n")

\* Line 152: results[cols].to_dict(orient="records"); results has the
\* columns of d148.
ToDict(rows, d148, cols) ==
    IF \E i \in 1..Len(cols) : ~HasColumn(d148, cols[i])
    THEN [exc |-> "KeyError", items |-> <<>>]
    ELSE [exc |-> NoException,
          items |-> [k \in 1..Len(rows) |->
                        [c \in {cols[i] : i \in 1..Len(cols)} |-> rows[k][c]]]]

ExceptionDetail(exc) ==
    CASE exc = "ValueError" -> "cannot convert float NaN to integer"
      [] exc = "OverflowError" -> "cannot convert float infinity to integer"
      [] exc = "TypeError" -> "'in <string>' requires string as left operand, not re.Pattern"
      [] exc = "IndexingError" -> "Unalignable boolean Series provided as indexer"
      [] exc = "KeyError" -> "columns not in index"

\* Lines 113-155, after ensure_loaded has returned: d113, d137, d146, d148
\* and d151 are the values of the global df_cache at the reads of those
\* lines.
RecommendBody(d113, d137, d146, d148, d151, categories, limit_raw, accessor) ==
    IF d113.none THEN ErrorResponse(500, NotLoadedDetail)
    ELSE
    LET parsed == ParseLimit(limit_raw)
        wanted == Wanted(CategoriesOrEmpty(categories))
        m == RowMask(d137, d146, wanted, accessor)
        filtered == Filtered(d148, m.mask)
        results == head(filtered.rows, parsed.limit)
        items == ToDict(results, d148, OutputColumns(d151))
    IN  CASE parsed.exc # NoException -> ErrorResponse(500, ExceptionDetail(parsed.exc))
          [] parsed.exc = NoException /\ m.exc # NoException ->
                ErrorResponse(500, ExceptionDetail(m.exc))
          [] parsed.exc = NoException /\ m.exc = NoException
             /\ filtered.exc # NoException ->
                ErrorResponse(500, ExceptionDetail(filtered.exc))
          [] parsed.exc = NoException /\ m.exc = NoException
             /\ filtered.exc = NoException /\ items.exc # NoException ->
                ErrorResponse(500, ExceptionDetail(items.exc))
          [] OTHER -> Response("ok", 200, 0, items.items, "")

\* recommend with no other thread running: every read of df_cache gives df.
RecommendOn(df, categories, limit_raw, accessor) ==
    RecommendBody(df, df, df, df, df, categories, limit_raw, accessor)

(***************************************************************************)
(* What the environment supplies: the file DATA_PATH holds when a load     *)
(* reads it, and the JSON body of a /recommend request.                    *)
(***************************************************************************)
MaxRows == 5

MaxLimit == 3

Catalog ==
    << [Name |-> "p1", Price |-> 100, Category |->
          PyStr(<<"B", "U+1EA3", "o", " ", "h", "i", "U+1EC3", "m", " ", "s", "U+1EE9",
                  "c", " ", "k", "h", "U+1ECF", "e", " ", "t", "o", "U+00E0", "n", " ",
                  "d", "i", "U+1EC7", "n">>)],
       [Name |-> "p2", Price |-> 200, Category |->
          PyStr(<<"M", "e", "d", "i", "c", "a", "l", " ", "p", "l", "a", "n">>)],
       [Name |-> "p3", Price |-> 300, Category |->
          PyStr(<<"T", "a", "i", " ", "N", "U+1EA1", "n">>)],
       [Name |-> "p4", Price |-> 400, Category |-> PyNaN],
       [Name |-> "p5", Price |-> 500, Category |->
          PyStr(<<"X", "e", " ", "m", "a", "y">>)],
       [Name |-> "p6", Price |-> 600, Category |->
          PyStr(<<"D", "u", " ", "l", "U+1ECB", "c", "h">>)] >>

\* The first n rows of the catalogue, for every n up to MaxRows.
RowRuns == {SubSeq(Catalog, 1, n) : n \in 0..MaxRows}

CsvFile(columns, rows) == [kind |-> "csv", columns |-> columns, rows |-> rows]

Files ==
    {[kind |-> "missing", columns |-> <<>>, rows |-> <<>>],
     [kind |-> "undecodable", columns |-> <<>>, rows |-> <<>>],
     CsvFile(<<"Name", "Price">>, SubSeq(Catalog, 1, 2)),
     CsvFile(<<"Category", "Name">>, SubSeq(Catalog, 2, 3))}
    \cup {CsvFile(<<"Name", "Category", "Price">>, rows) : rows \in RowRuns}

\* Stands for the file when no load reads it.
NotRead == [kind |-> "notread", columns |-> <<>>, rows |-> <<>>]

CategoryList(items) == [t |-> "list", items |-> items]

CategoriesInputs ==
    {[t |-> "absent", items |-> <<>>],
     [t |-> "null", items |-> <<>>],
     CategoryList(<<>>),
     CategoryList(<<PyStr(<<"s", "u", "c", " ", "k", "h", "o", "e">>)>>),
     CategoryList(<<PyStr(<<"T", "A", "I", " ", "N", "U+1EA0", "N", " ">>),
                    PyStr(<<"x", "e">>)>>),
     CategoryList(<<PyStr(<<" ">>)>>)}

LimitInputs ==
    {PyNone, PyList, PyDict, PyBool(TRUE), PyBool(FALSE),
     PyStr(<<"a", "l", "l">>), PyStr(<<" ", "A", "L", "L", " ">>),
     PyStr(<<"3">>), PyStr(<<" ", "+", "2", " ">>), PyStr(<<"0">>),
     PyStr(<<"-", "5">>), PyStr(<<"a", "b", "c">>), PyStr(<<"2", ".", "5">>),
     PyInt(0), PyInt(-5),
     PyFloat(27), PyFloat(-5), PyNaN, PyInf}
    \cup {PyInt(n) : n \in 1..MaxLimit}

Accessors == {"object", "string"}

NumThreads == 2

Threads == 1..NumThreads

(***************************************************************************)
(* The handlers, each run to completion with no other request in flight.   *)
(***************************************************************************)
NoRequest ==
    [op |-> "none", categories |-> [t |-> "absent", items |-> <<>>],
     limit_raw |-> PyNone, load |-> "notread", resp |-> ErrorResponse(0, "")]

Completed(op, categories, limit_raw, load, resp) ==
    [op |-> op, categories |-> categories, limit_raw |-> limit_raw,
     load |-> load, resp |-> resp]

IdleFrame ==
    [op |-> "idle", pc |-> "idle", categories |-> [t |-> "absent", items |-> <<>>],
     limit_raw |-> PyNone, loaded |-> None, load |-> "notread",
     d113 |-> None, d137 |-> None, d146 |-> None, d148 |-> None, d151 |-> None,
     resp |-> ErrorResponse(0, "")]

NoProbe == [text |-> PyNone, done |-> FALSE, norm |-> <<>>, renorm |-> <<>>, canon |-> <<>>]

Init ==
    /\ df_cache = None
    /\ strAccessor \in Accessors
    /\ last = NoRequest
    /\ frames = [t \in Threads |-> IdleFrame]
    /\ probe = NoProbe

\* Lines 85-89: ensure_loaded reads the file only while the cache is None.
FilesReadBy(cache) == IF cache.none THEN Files ELSE {NotRead}

\* ensure_loaded without the test of df_cache.
ensure_loaded_Always(cache, file) ==
    LET r == load_csv(file)
    IN  [exc |-> r.exc, detail |-> r.detail,
         df |-> IF r.exc = NoException THEN r.df ELSE cache]

ensure_loaded(cache, file) ==
    IF cache.none
    THEN LET r == load_csv(file)
         IN  [exc |-> r.exc, detail |-> r.detail,
              df |-> IF r.exc = NoException THEN r.df ELSE cache]
    ELSE [exc |-> "notread", detail |-> "", df |-> cache]

Raised(r) == r.exc \notin {NoException, "notread"}

\* Lines 91-98
Healthz ==
    \E file \in FilesReadBy(df_cache) :
        \E e \in {ensure_loaded(df_cache, file)} :
            /\ df_cache' = e.df
            /\ last' = Completed("healthz", NoRequest.categories, PyNone, e.exc,
                          IF Raised(e) THEN ErrorResponse(500, e.detail)
                          ELSE Response("ok", 200, Len(e.df.rows), <<>>, ""))
            /\ UNCHANGED <<strAccessor, frames, probe>>

\* reload_csv with the cache dropped when the load raises.
reload_csv_DropsOnFailure(cache, file) ==
    LET r == load_csv(file)
    IN  IF r.exc = NoException
        THEN [df |-> r.df, load |-> r.exc,
              resp |-> Response("ok", 200, Len(r.df.rows), <<>>, "")]
        ELSE [df |-> None, load |-> r.exc, resp |-> ErrorResponse(400, r.detail)]

\* Lines 100-107
reload_csv(cache, file) ==
    LET r == load_csv(file)
    IN  IF r.exc = NoException
        THEN [df |-> r.df, load |-> r.exc,
              resp |-> Response("ok", 200, Len(r.df.rows), <<>>, "")]
        ELSE [df |-> cache, load |-> r.exc, resp |-> ErrorResponse(400, r.detail)]

Reload ==
    \E file \in Files :
        \E r \in {reload_csv(df_cache, file)} :
            /\ df_cache' = r.df
            /\ last' = Completed("reload", NoRequest.categories, PyNone, r.load, r.resp)
            /\ UNCHANGED <<strAccessor, frames, probe>>

\* Lines 109-155.  The body of the request is read at line 116, after
\* ensure_loaded has returned: a request whose lazy load raises is answered
\* without it.
Recommend ==
    \E file \in FilesReadBy(df_cache) :
        \E e \in {ensure_loaded(df_cache, file)} :
            /\ df_cache' = e.df
            /\ IF Raised(e)
               THEN last' = Completed("recommend", NoRequest.categories, PyNone, e.exc,
                                ErrorResponse(500, e.detail))
               ELSE \E categories \in CategoriesInputs, limit_raw \in LimitInputs :
                        last' = Completed("recommend", categories, limit_raw, e.exc,
                                    RecommendOn(e.df, categories, limit_raw, strAccessor))
            /\ UNCHANGED <<strAccessor, frames, probe>>

Next == Healthz \/ Reload \/ Recommend

Spec == Init /\ [][Next]_vars

(***************************************************************************)
(* The handlers as the threaded server runs them: each request on its own  *)
(* thread, one step per access to the global df_cache.  A frame holds the  *)
(* request a thread is serving, the line it is at, and what it has read.   *)
(***************************************************************************)
ConcFiles ==
    {[kind |-> "missing", columns |-> <<>>, rows |-> <<>>],
     CsvFile(<<"Category", "Name">>, SubSeq(Catalog, 2, 3)),
     CsvFile(<<"Name", "Category", "Price">>, SubSeq(Catalog, 1, 1))}

ConcCategories ==
    {CategoryList(<<>>),
     CategoryList(<<PyStr(<<"s", "u", "c", " ", "k", "h", "o", "e">>)>>)}

ConcLimits == {PyNone, PyNaN}

At(t, op, pc) == frames[t].op = op /\ frames[t].pc = pc

Goto(t, frame) ==
    /\ frames' = [frames EXCEPT ![t] = frame]
    /\ UNCHANGED <<strAccessor, last, probe>>

Done(frame, resp) == [frame EXCEPT !.pc = "done", !.resp = resp]

\* What the thread's reads so far make of lines 113-155.
BodySoFar(f) ==
    RecommendBody(f.d113, f.d137, f.d146, f.d148, f.d151,
                  f.categories, f.limit_raw, strAccessor)

\* A request arrives at a thread that is serving none.
Start(t) ==
    /\ frames[t].pc \in {"idle", "done"}
    /\ \/ \E categories \in ConcCategories, limit_raw \in ConcLimits :
             Goto(t, [IdleFrame EXCEPT !.op = "recommend", !.pc = "ensure",
                         !.categories = categories, !.limit_raw = limit_raw])
       \/ Goto(t, [IdleFrame EXCEPT !.op = "healthz", !.pc = "ensure"])
       \/ Goto(t, [IdleFrame EXCEPT !.op = "reload", !.pc = "load"])
    /\ UNCHANGED df_cache

AfterEnsure(op) == IF op = "recommend" THEN "l113" ELSE "l95"

\* Lines 87-89: the test of df_cache and, when it is None, load_csv().
EnsureTest(t) ==
    /\ frames[t].pc = "ensure"
    /\ IF ~df_cache.none
       THEN Goto(t, [frames[t] EXCEPT !.pc = AfterEnsure(frames[t].op)])
       ELSE \E file \in ConcFiles :
               \E r \in {load_csv(file)} :
                   IF r.exc # NoException
                   THEN Goto(t, Done([frames[t] EXCEPT !.load = r.exc],
                                     ErrorResponse(500, r.detail)))
                   ELSE Goto(t, [frames[t] EXCEPT !.pc = "assign", !.load = r.exc,
                                    !.loaded = r.df])
    /\ UNCHANGED df_cache

\* Line 89: the store into the global.
EnsureAssign(t) ==
    /\ frames[t].pc = "assign"
    /\ df_cache' = frames[t].loaded
    /\ Goto(t, [frames[t] EXCEPT !.pc = AfterEnsure(frames[t].op)])

\* Line 95
HealthzRows(t) ==
    /\ At(t, "healthz", "l95")
    /\ Goto(t, Done(frames[t], Response("ok", 200, Len(df_cache.rows), <<>>, "")))
    /\ UNCHANGED df_cache

\* Line 104, right-hand side
ReloadLoad(t) ==
    /\ At(t, "reload", "load")
    /\ \E file \in ConcFiles :
          \E r \in {load_csv(file)} :
              IF r.exc # NoException
              THEN Goto(t, Done([frames[t] EXCEPT !.load = r.exc],
                                ErrorResponse(400, r.detail)))
              ELSE Goto(t, [frames[t] EXCEPT !.pc = "store", !.load = r.exc,
                               !.loaded = r.df])
    /\ UNCHANGED df_cache

\* Line 104: the store into the global.
ReloadAssign(t) ==
    /\ At(t, "reload", "store")
    /\ df_cache' = frames[t].loaded
    /\ Goto(t, [frames[t] EXCEPT !.pc = "l105"])

\* Line 105
ReloadRows(t) ==
    /\ At(t, "reload", "l105")
    /\ Goto(t, Done(frames[t], Response("ok", 200, Len(df_cache.rows), <<>>, "")))
    /\ UNCHANGED df_cache

\* Lines 113-131: the test of df_cache, then the body and its limit.
Read113(t) ==
    /\ At(t, "recommend", "l113")
    /\ \E f \in {[frames[t] EXCEPT !.d113 = df_cache]} :
          IF df_cache.none \/ ParseLimit(f.limit_raw).exc # NoException
          THEN Goto(t, Done(f, BodySoFar(f)))
          ELSE Goto(t, [f EXCEPT !.pc = "l137"])
    /\ UNCHANGED df_cache

\* Line 137
Read137(t) ==
    /\ At(t, "recommend", "l137")
    /\ Goto(t, [frames[t] EXCEPT !.d137 = df_cache,
                   !.pc = IF ReadsAt146(frames[t].categories) THEN "l146" ELSE "l148"])
    /\ UNCHANGED df_cache

\* Line 146
Read146(t) ==
    /\ At(t, "recommend", "l146")
    /\ \E f \in {[frames[t] EXCEPT !.d146 = df_cache]} :
          IF RowMask(f.d137, f.d146, Wanted(CategoriesOrEmpty(f.categories)),
                     strAccessor).exc # NoException
          THEN Goto(t, Done(f, BodySoFar(f)))
          ELSE Goto(t, [f EXCEPT !.pc = "l148"])
    /\ UNCHANGED df_cache

\* Lines 148-149
Read148(t) ==
    /\ At(t, "recommend", "l148")
    /\ \E f \in {[frames[t] EXCEPT !.d148 = df_cache]} :
          IF Filtered(f.d148,
                      RowMask(f.d137, f.d146, Wanted(CategoriesOrEmpty(f.categories)),
                              strAccessor).mask).exc # NoException
          THEN Goto(t, Done(f, BodySoFar(f)))
          ELSE Goto(t, [f EXCEPT !.pc = "l151"])
    /\ UNCHANGED df_cache

\* Lines 151-153
Read151(t) ==
    /\ At(t, "recommend", "l151")
    /\ \E f \in {[frames[t] EXCEPT !.d151 = df_cache]} : Goto(t, Done(f, BodySoFar(f)))
    /\ UNCHANGED df_cache

ThreadedNext ==
    \E t \in Threads :
        \/ Start(t)
        \/ EnsureTest(t)
        \/ EnsureAssign(t)
        \/ HealthzRows(t)
        \/ ReloadLoad(t)
        \/ ReloadAssign(t)
        \/ ReloadRows(t)
        \/ Read113(t)
        \/ Read137(t)
        \/ Read146(t)
        \/ Read148(t)
        \/ Read151(t)

ThreadedSpec == Init /\ [][ThreadedNext]_vars

(***************************************************************************)
(* normalize and the resolver on their own: a text is drawn, normalize is  *)
(* applied to it and to its own result, and the text is resolved as line   *)
(* 135 resolves a requested category.                                      *)
(***************************************************************************)
DeclaredSynonyms ==
    UNION {{CATEGORY_SYNONYMS[k].syns[i] : i \in 1..Len(CATEGORY_SYNONYMS[k].syns)} :
           k \in 1..Len(CATEGORY_SYNONYMS)}

CanonicalNames == {CATEGORY_SYNONYMS[k].canon : k \in 1..Len(CATEGORY_SYNONYMS)}

TaiNanAccented == <<"T", "a", "i", " ", "N", "U+1EA1", "n">>
TaiNanHyphen == <<"t", "a", "i", "-", "n", "a", "n">>
TaiNanUpper == <<"T", "A", "I", " ", "N", "A", "N">>

OtherTexts ==
    {TaiNanAccented, TaiNanHyphen, TaiNanUpper,
     <<>>, <<" ">>, <<"x", "e">>, <<"X", "e", " ", "m", "a", "y">>,
     <<" ", " ", "S", "u", "c", " ", "K", "h", "o", "e", " ">>,
     <<"T", "A", "I", " ", "N", "U+1EA0", "N", " ">>,
     <<"U+00A0", "p", "a">>, <<"U+00C6", "o", "n">>, <<"U+5317">>,
     <<"a", "U+2026">>, <<"\t", "C", "I", "\t">>}

TextInputs ==
    {PyStr(s) : s \in DeclaredSynonyms \cup CanonicalNames \cup OtherTexts}
    \cup {PyNone, PyNaN, PyInt(24), PyInt(-7), PyBool(TRUE), PyFloat(-5)}

TextInit ==
    /\ df_cache = None
    /\ strAccessor \in Accessors
    /\ last = NoRequest
    /\ frames = [t \in Threads |-> IdleFrame]
    /\ probe \in {[NoProbe EXCEPT !.text = x] : x \in TextInputs}

Apply ==
    /\ ~probe.done
    /\ probe' = [text |-> probe.text, done |-> TRUE,
                 norm |-> normalize(probe.text),
                 renorm |-> normalize(PyStr(normalize(probe.text))),
                 canon |-> Resolve(probe.text)]
    /\ UNCHANGED <<df_cache, strAccessor, last, frames>>

Draw ==
    /\ probe.done
    /\ \E x \in TextInputs : probe' = [NoProbe EXCEPT !.text = x]
    /\ UNCHANGED <<df_cache, strAccessor, last, frames>>

TextNext == Apply \/ Draw

TextSpec == TextInit /\ [][TextNext]_vars

(***************************************************************************)
(* The resolver (TextSpec).                                                *)
(***************************************************************************)
Declaring(s) ==
    {k \in 1..Len(CATEGORY_SYNONYMS) :
        \E i \in 1..Len(CATEGORY_SYNONYMS[k].syns) : CATEGORY_SYNONYMS[k].syns[i] = s}

DeclaringKey(key) ==
    {k \in 1..Len(CATEGORY_SYNONYMS) :
        \E i \in 1..Len(CATEGORY_SYNONYMS[k].syns) :
            CanonicalKey(CATEGORY_SYNONYMS[k].syns[i]) = key}

Hospital == <<"h", "o", "s", "p", "i", "t", "a", "l">>
BenhVien == <<"b", "e", "n", "h", " ", "v", "i", "e", "n">>

\* C2, as stated: resolving a synonym phrase declared under a canonical
\* category C gives C, and resolving a text whose normalized form is no key
\* of the lookup table gives that normalized form.
C2_ResolvesToDeclaringCategory ==
    probe.done =>
        /\ probe.text.t = "str" =>
              \A k \in Declaring(probe.text.s) :
                  probe.canon = CATEGORY_SYNONYMS[k].canon
        /\ DeclaringKey(probe.norm) = {} => probe.canon = probe.norm

\* C2, amended: resolving a text whose normalized form is the key of a
\* declared synonym gives the canonical category declared last among the
\* categories that list a synonym with that key (so a synonym of C resolves
\* to C unless a later category lists it too); resolving any other text
\* gives its normalized form.
C2_ResolvesToLastDeclaringCategory ==
    probe.done =>
        /\ DeclaringKey(probe.norm) # {} =>
              \E k \in DeclaringKey(probe.norm) :
                  /\ \A j \in DeclaringKey(probe.norm) : j <= k
                  /\ probe.canon = CATEGORY_SYNONYMS[k].canon
        /\ DeclaringKey(probe.norm) = {} => probe.canon = probe.norm

\* "benh vien", declared under health and again under hospital, resolved.
C2_Witness ==
    /\ probe.done
    /\ probe.text = PyStr(BenhVien)
    /\ Cardinality(Declaring(BenhVien)) = 2
    /\ probe.canon = Hospital

(***************************************************************************)
(* normalize (TextSpec).                                                   *)
(***************************************************************************)
SwapCaseChar(c) ==
    CASE c \in UpperCase -> LowerTable[c]
      [] \E u \in UpperCase : LowerTable[u] = c -> CHOOSE u \in UpperCase : LowerTable[u] = c
      [] c = "U+1EA0" -> "U+1EA1"
      [] c = "U+1EA1" -> "U+1EA0"
      [] OTHER -> c

SwapCase(s) == [i \in 1..Len(s) |-> SwapCaseChar(s[i])]

\* Spellings the registry declares with and without their diacritics.
DiacriticPairs ==
    {<<<<"s", "U+1EE9", "c", " ", "k", "h", "U+1ECF", "e">>,
       <<"s", "u", "c", " ", "k", "h", "o", "e">>>>,
     <<<<"t", "a", "i", " ", "n", "U+1EA1", "n">>,
       <<"t", "a", "i", " ", "n", "a", "n">>>>,
     <<<<"n", "h", "U+00E2", "n", " ", "t", "h", "U+1ECD">>,
       <<"n", "h", "a", "n", " ", "t", "h", "o">>>>,
     <<<<"b", "U+1EC7", "n", "h", " ", "v", "i", "U+1EC7", "n">>,
       <<"b", "e", "n", "h", " ", "v", "i", "e", "n">>>>,
     <<<<"m", "U+00E3", "n", " ", "t", "U+00ED", "n", "h">>,
       <<"m", "a", "n", " ", "t", "i", "n", "h">>>>}

TaiNan == <<"t", "a", "i", " ", "n", "a", "n">>

ThreeSpellings == {TaiNanAccented, TaiNanHyphen, TaiNanUpper}

Idempotent == probe.renorm = probe.norm

CaseInsensitive ==
    probe.text.t = "str" => normalize(PyStr(SwapCase(probe.text.s))) = probe.norm

DiacriticInsensitive ==
    \A pair \in DiacriticPairs :
        probe.text = PyStr(pair[1]) => probe.norm = pair[2]

\* C7, as stated: normalize is idempotent and case- and diacritic-
\* insensitive, and the accented, the hyphenated and the upper-case spelling
\* of "tai nan" all normalize to the same value.
C7_ThreeSpellingsAgree ==
    probe.done =>
        /\ Idempotent
        /\ CaseInsensitive
        /\ DiacriticInsensitive
        /\ (probe.text.t = "str" /\ probe.text.s \in ThreeSpellings) =>
              \A s \in ThreeSpellings : normalize(PyStr(s)) = probe.norm

\* C7, amended: normalize is idempotent and case- and diacritic-insensitive;
\* the accented and the upper-case spelling both normalize to "tai nan",
\* and the hyphenated spelling keeps its hyphen: it normalizes to "tai-nan".
C7_IdempotentAndHyphenKept ==
    probe.done =>
        /\ Idempotent
        /\ CaseInsensitive
        /\ DiacriticInsensitive
        /\ probe.text \in {PyStr(TaiNanAccented), PyStr(TaiNanUpper)} => probe.norm = TaiNan
        /\ probe.text = PyStr(TaiNanHyphen) => probe.norm = TaiNanHyphen

\* The hyphenated spelling, normalized to something other than "tai nan".
C7_Witness ==
    /\ probe.done
    /\ probe.text = PyStr(TaiNanHyphen)
    /\ probe.norm # TaiNan
    /\ probe.renorm = probe.norm

(***************************************************************************)
(* The handlers run one at a time (Spec).  In a state, last is the request *)
(* completed last and df_cache the frame that request left in the cache;   *)
(* a recommend whose load did not raise computed its response from it.     *)
(***************************************************************************)
LoadRaised(load) == load \notin {NoException, "notread"}

Served == last.op = "recommend" /\ ~LoadRaised(last.load)

RequestedList == CategoriesOrEmpty(last.categories)

UnlimitedLimits == {PyNone, PyStr(LiteralAll), PyInt(0), PyInt(-5)}

\* The rows of df whose normalized Category contains the normalized form of
\* a synonym in the expansion of a resolved requested category.
ContainsSomeSynonym(df, categories) ==
    [i \in 1..Len(df.rows) |->
        \E canon \in Wanted(categories) :
            \E j \in 1..Len(SynonymsGet(canon)) :
                Contains(normalize(PyStr(SynonymsGet(canon)[j])), df.rows[i]._category_n)]

Records(df, rows) == ToDict(rows, df, OutputColumns(df)).items

\* C1: a successful /recommend with a non-empty list of categories returns
\* exactly the rows whose normalized Category contains, as a substring, the
\* normalized form of a synonym of a resolved requested category (cut to
\* the limit, when the request has one).
C1_ReturnsRowsContainingSynonym ==
    (Served /\ last.resp.status = "ok" /\ RequestedList # <<>>) =>
        last.resp.items =
            head(Records(df_cache, RowsWhere(df_cache.rows,
                                      ContainsSomeSynonym(df_cache, RequestedList))),
                 ParseLimit(last.limit_raw).limit)

\* What the mask of lines 137-146 selects of the cached frame, before any
\* limit.
Selection == RowMask(df_cache, df_cache, Wanted(RequestedList), strAccessor)

Selected == Records(df_cache, RowsWhere(df_cache.rows, Selection.mask))

Min(a, b) == IF a < b THEN a ELSE b

\* C5: for one dataset and one list of categories the limits "all", 0, -5
\* and absent give the same, untruncated result; a positive integer n gives
\* the first min(n, number of matches) matching rows in dataset order; the
\* count is the number of rows returned.
C5_LimitTruncatesInOrder ==
    Served =>
        /\ last.limit_raw \in UnlimitedLimits =>
              IF Selection.exc = NoException
              THEN last.resp.status = "ok" /\ last.resp.items = Selected
              ELSE last.resp = ErrorResponse(500, ExceptionDetail(Selection.exc))
        /\ (last.limit_raw.t = "int" /\ last.limit_raw.n > 0) =>
              IF Selection.exc = NoException
              THEN /\ last.resp.status = "ok"
                   /\ last.resp.items =
                         SubSeq(Selected, 1, Min(last.limit_raw.n, Len(Selected)))
              ELSE last.resp = ErrorResponse(500, ExceptionDetail(Selection.exc))
        /\ last.resp.status = "ok" => last.resp.count = Len(last.resp.items)

\* Limit 3 on five matching rows: the first three, in order.
C5_Witness ==
    /\ Served
    /\ last.limit_raw = PyInt(3)
    /\ Selection.exc = NoException
    /\ Len(Selected) = 5
    /\ last.resp.count = 3
    /\ \A k \in 1..3 : last.resp.items[k].Name = Catalog[k].Name

\* C6: with no requested category (absent, null or an empty list) and no
\* limit, /recommend returns every row of the loaded dataset, in dataset
\* order, each without the _category_n attribute.
C6_NoCategoryReturnsEveryRow ==
    (Served /\ RequestedList = <<>> /\ last.limit_raw \in UnlimitedLimits) =>
        /\ last.resp.status = "ok"
        /\ last.resp.count = Len(df_cache.rows)
        /\ \A k \in 1..Len(df_cache.rows) :
              /\ DOMAIN last.resp.items[k] =
                    {df_cache.columns[i] : i \in 1..Len(df_cache.columns)}
                    \ {"_category_n"}
              /\ "Category" \in DOMAIN last.resp.items[k]
              /\ \A c \in DOMAIN last.resp.items[k] :
                    last.resp.items[k][c] = df_cache.rows[k][c]

\* categories: null and no limit, on a dataset of at least two rows.
C6_Witness ==
    /\ Served
    /\ last.categories.t = "null"
    /\ last.limit_raw = PyNone
    /\ Len(df_cache.rows) >= 2
    /\ last.resp.count = Len(df_cache.rows)

\* C8: with a dataset loaded, whatever the limit field and the requested
\* category strings are, /recommend does not answer with an error.  Stated
\* for the object-dtype accessor, under which no category raises.
C8_NeverAnError == (Served /\ strAccessor = "object") => last.resp.status = "ok"

LoadDetails == {load_csv(file).detail : file \in Files}

\* C9: a /recommend whose lazy load fails answers with the not-yet-loaded
\* response, which is none of the responses of the load failures.
C9_NotYetLoadedSurfaced ==
    (last.op = "recommend" /\ LoadRaised(last.load)) =>
        /\ last.resp.detail = NotLoadedDetail
        /\ last.resp.detail \notin LoadDetails

(***************************************************************************)
(* The cache (Spec).                                                       *)
(***************************************************************************)
ReloadFailed == last.op = "reload" /\ LoadRaised(last.load)

ItemOfCache(item) ==
    \E i \in 1..Len(df_cache.rows) :
        \A c \in DOMAIN item : item[c] = df_cache.rows[i][c]

\* C4: a /reload whose load raises leaves the cache as it was and answers
\* with an error (400) where a successful one answers ok (200); a match
\* after it is served from the frame that was cached before.
C4_FailedReloadKeepsCache ==
    /\ [][ReloadFailed' =>
            /\ df_cache' = df_cache
            /\ last'.resp.status = "error" /\ last'.resp.code = 400]_vars
    /\ [][(last'.op = "reload" /\ ~LoadRaised(last'.load)) =>
            /\ last'.resp.status = "ok" /\ last'.resp.code = 200
            /\ ~df_cache'.none /\ last'.resp.rows = Len(df_cache'.rows)]_vars
    /\ [][(ReloadFailed /\ ~df_cache.none /\ last'.op = "recommend") =>
            /\ df_cache' = df_cache
            /\ last'.resp.status = "ok" =>
                  \A k \in 1..Len(last'.resp.items) : ItemOfCache(last'.resp.items[k])]_vars

\* A failed reload with a dataset in the cache.
C4_Witness == ReloadFailed /\ ~df_cache.none /\ Len(df_cache.rows) >= 2

Complete(df) ==
    /\ HasColumn(df, "Category")
    /\ HasColumn(df, "_category_n")
    /\ \A i \in 1..Len(df.rows) : df.rows[i]._category_n = normalize(df.rows[i].Category)

LazyOp(op) == op \in {"healthz", "recommend"}

Observed(f) == {f.d113, f.d137, f.d146, f.d148, f.d151} \ {None}

\* C3: a /recommend that runs while a /reload does computes its whole
\* response from one snapshot of the cache: the response is the one the
\* request gets from one of the frames it saw in df_cache.
C3_SingleSnapshot ==
    \A t \in Threads :
        (/\ At(t, "recommend", "done")
         /\ ~LoadRaised(frames[t].load)
         /\ \E u \in Threads \ {t} : frames[u].op = "reload") =>
            \E df \in Observed(frames[t]) :
                frames[t].resp =
                    RecommendOn(df, frames[t].categories, frames[t].limit_raw, strAccessor)

====
